---------------------------- MODULE Spec2Model ----------------------------
(***************************************************************************)
(* Segment-timing reconciliation layer of the dubbing pipeline:            *)
(*   merge_segments            (src/dub_video.py)                          *)
(*   get_segments_in_range     (src/modules/transcribe.py)                 *)
(*   adjust_audio_duration     (src/modules/tts.py)                        *)
(*   stitch_segments_with_timing (src/modules/tts.py)                      *)
(*                                                                         *)
(* Time stamps are Python floats in the code.  Here a time is an integer   *)
(* number of ticks, and arithmetic on times is exact; where a time meets   *)
(* a sample rate there are TicksPerSec ticks to the second.  A text is a   *)
(* sequence of one-character strings, so that str.strip() and string       *)
(* concatenation are computed, not assumed.  An audio buffer is a sequence *)
(* of sample values, 0 being silence.                                      *)
(***************************************************************************)
EXTENDS Integers, Sequences, FiniteSets, TLC

VARIABLES
    op,                 \* the operation that is called
    pc,                 \* "call": it is about to run on its arguments;
                        \* "done": it returned; "raised": it raised
    segments, max_gap,  \* merge_segments: arguments
    merged,             \* merge_segments: return value
    result, start_time, end_time,   \* get_segments_in_range: arguments
    filtered,           \* get_segments_in_range: return value
    y, sr, target_duration,         \* adjust_audio_duration: the clip loaded from
                                    \* audio_path, its sample rate, the target
    written,            \* adjust_audio_duration: the samples given to sf.write
    segment_results, total_duration, stitch_sr,
                        \* stitch_segments_with_timing: the clips (start and
                        \* adjusted audio of each), the total duration, sr
    output_audio,       \* stitch_segments_with_timing: the canvas
    args,               \* main: the command line (start, end, no_lipsync)
    translated,         \* main: the translated segments
    model_loaded,       \* translate.py: _model is not None
    tts_loaded,         \* tts.py: _tts is not None
    loop_i,             \* the index i of the running for loop
    results,            \* generate_segment_audio: its list of results
    files,              \* the files written: pairs <<path, content>>
    error,              \* the exception that left main, if any
    heap                \* the dicts and lists merge_segments meets, by reference

mergeVars == <<segments, max_gap, merged>>
projectVars == <<result, start_time, end_time, filtered>>
fitVars == <<y, sr, target_duration, written>>
stitchVars == <<segment_results, total_duration, stitch_sr, output_audio>>
pipeVars == <<args, translated, model_loaded, tts_loaded, loop_i, results,
              files, error>>
vars == <<op, pc, mergeVars, projectVars, fitVars, stitchVars, pipeVars, heap>>

(***************************** bounds *************************************)
MaxSegs == 3        \* longest segment list given to merge / project
MaxTime == 4        \* latest segment start, in ticks
MaxDur == 2         \* longest segment duration, in ticks
MaxGap == 2         \* largest max_gap, in ticks
MaxProjSegs == 2    \* longest segment list given to get_segments_in_range
MaxWinStart == 2    \* latest window start, in ticks
MaxWords == 2       \* most words a segment carries
TicksPerSec == 4    \* resolution of the durations given to the fitter
MaxRate == 3        \* highest sample rate, in samples per second
MaxSamples == 22    \* longest clip given to the fitter, in samples
MaxTarget == 28     \* longest target duration, in ticks
MinTarget == 3      \* longest negative target duration, in ticks
MaxClips == 2       \* most clips given to the compositor
MaxClipLen == 3     \* longest clip given to the compositor, in samples
MaxStart == 6       \* latest clip start, in ticks
MaxTotal == 5       \* longest total duration, in ticks
MaxPipeSegs == 2    \* longest segment list the recogniser gives to main
MaxPipeStart == 6   \* latest segment start the recogniser gives to main
MaxRaw == 2         \* longest synthesised clip, in samples
MaxObjSegs == 2     \* longest list of segment objects given to merge

(***************************** helpers ************************************)
Max(a, b) == IF a >= b THEN a ELSE b
Min(a, b) == IF a <= b THEN a ELSE b
Abs(a) == IF a >= 0 THEN a ELSE -a

\* The value of a variable that the running operation does not use.
Idle == <<>>

\* No exception.
NoError == [call |-> "none", args |-> {}]

\* The state of main when another operation is called on its own.
PipeIdle ==
    /\ args = Idle /\ translated = Idle /\ results = Idle
    /\ model_loaded = FALSE /\ tts_loaded = FALSE /\ loop_i = 0
    /\ files = {} /\ error = NoError

\* The segment dict {"start": s, "end": e, "text": t}.
Seg(s, e, t) == [start |-> s, end |-> e, text |-> t]

\* Segment durations the recogniser may deliver: -1 and 0 are the malformed
\* timings (end <= start) that transcription noise produces.
Durations == (-1) .. MaxDur

\* Whisper delivers its segments ordered by start.
OrderedByStart(segs) ==
    \A i \in 1 .. Len(segs) - 1 : segs[i].start <= segs[i + 1].start

\* The i-th fragment carries the i-th letter, so that the order of the
\* fragments can be read off a joined text.
Letters == <<"a", "b", "c", "d", "e">>

MergeInputs ==
    UNION { { s \in [1 .. n -> [start : 0 .. MaxTime, dur : Durations]] :
                \A i \in 1 .. n - 1 : s[i].start <= s[i + 1].start }
            : n \in 0 .. MaxSegs }

MergeInput(s) ==
    [i \in 1 .. Len(s) |-> Seg(s[i].start, s[i].start + s[i].dur, <<Letters[i]>>)]

\* spec.md scenario, in ticks of 0.1 s:
\* [{0.0,1.0,"a"}, {1.3,2.0,"b"}, {5.0,6.0,"c"}], max_gap = 1.0
ScenarioSegments == <<Seg(0, 10, <<"a">>), Seg(13, 20, <<"b">>), Seg(50, 60, <<"c">>)>>
ScenarioGap == 10

(************************** merge_segments ********************************)
\* A bug the fold test could have: a gap of exactly max_gap is not merged.
ShouldFold_strict(seg, buffer, gap) == seg.start - buffer.end < gap

\* A bug the fold test could have: the gap is measured from the
\* accumulator's start.
ShouldFold_fromstart(seg, buffer, gap) == seg.start - buffer.start <= gap

\* A bug the fold test could have: the gap is measured to the segment's end.
ShouldFold_toend(seg, buffer, gap) == seg.end - buffer.end <= gap

\* dub_video.py:67
ShouldFold(seg, buffer, gap) == seg.start - buffer.end <= gap

\* A bug the fold could have: the accumulator's end only grows.
Fold_maxend(buffer, seg) ==
    [buffer EXCEPT !.text = @ \o <<" ">> \o seg.text, !.end = Max(@, seg.end)]

\* A bug the fold could have: the fragments are joined without the space.
Fold_nospace(buffer, seg) ==
    [buffer EXCEPT !.text = @ \o seg.text, !.end = seg.end]

\* dub_video.py:68-69
Fold(buffer, seg) ==
    [buffer EXCEPT !.text = @ \o <<" ">> \o seg.text, !.end = seg.end]

\* dub_video.py:66-74: the loop over segments[1:], then the final flush.
RECURSIVE merge_loop(_, _, _, _, _)
merge_loop(segs, i, buffer, out, gap) ==
    IF i > Len(segs)
    THEN Append(out, buffer)
    ELSE IF ShouldFold(segs[i], buffer, gap)
         THEN merge_loop(segs, i + 1, Fold(buffer, segs[i]), out, gap)
         ELSE merge_loop(segs, i + 1, segs[i], Append(out, buffer), gap)

\* dub_video.py:48-75
merge_segments(segs, gap) ==
    IF segs = <<>> THEN <<>> ELSE merge_loop(segs, 2, segs[1], <<>>, gap)

InitMerge ==
    /\ op = "merge_segments" /\ pc = "call"
    /\ heap = Idle
    /\ \/ /\ \E s \in MergeInputs : segments = MergeInput(s)
          /\ max_gap \in 0 .. MaxGap
       \/ /\ segments = ScenarioSegments
          /\ max_gap = ScenarioGap
    /\ merged = Idle
    /\ result = Idle /\ start_time = 0 /\ end_time = 0 /\ filtered = Idle
    /\ y = Idle /\ sr = 0 /\ target_duration = 0 /\ written = Idle
    /\ segment_results = Idle /\ total_duration = 0 /\ stitch_sr = 0
    /\ output_audio = Idle
    /\ PipeIdle

MergeSegments ==
    /\ op = "merge_segments" /\ pc = "call"
    /\ merged' = merge_segments(segments, max_gap)
    /\ pc' = "done"
    /\ UNCHANGED <<op, heap, segments, max_gap, projectVars, fitVars, stitchVars,
                   pipeVars>>

NextMerge == MergeSegments

SpecMerge == InitMerge /\ [][NextMerge]_vars

\* merge_segments called again, on the list it returned and with the same
\* max_gap.
MergeSegmentsAgain ==
    /\ op = "merge_segments" /\ pc = "done"
    /\ segments' = merged
    /\ merged' = merge_segments(merged, max_gap)
    /\ pc' = "again"
    /\ UNCHANGED <<op, heap, max_gap, projectVars, fitVars, stitchVars, pipeVars>>

NextMergeTwice == MergeSegments \/ MergeSegmentsAgain

SpecMergeTwice == InitMerge /\ [][NextMergeTwice]_vars

(******************* merge_segments on Python objects **********************)
\* The heap as far as merge_segments meets it: the segment dicts and the
\* lists that are the values of their "words" key (Whisper gives them with
\* word_timestamps, config.py:28).  A reference is the object's position in
\* heap.dicts or heap.lists; a dict holds its "words" list by reference.

\* A bug the copy could have: the accumulator is the input dict itself.
CopyDict_alias(h, ref) == [heap |-> h, ref |-> ref]

\* dub_video.py:64,72: dict(seg), a new dict with the keys of seg and the
\* same values (a shallow copy).
CopyDict(h, ref) ==
    [heap |-> [h EXCEPT !.dicts = Append(@, h.dicts[ref])],
     ref |-> Len(h.dicts) + 1]

\* dub_video.py:66-74 on references: the fold assigns to keys of the
\* accumulator dict, the flush appends the accumulator's reference.
RECURSIVE merge_objects_loop(_, _, _, _, _, _)
merge_objects_loop(h, segs, i, buffer, out, gap) ==
    IF i > Len(segs)
    THEN [heap |-> h, merged |-> Append(out, buffer)]
    ELSE IF ShouldFold(h.dicts[segs[i]], h.dicts[buffer], gap)
         THEN merge_objects_loop(
                  [h EXCEPT !.dicts[buffer] = Fold(@, h.dicts[segs[i]])],
                  segs, i + 1, buffer, out, gap)
         ELSE LET c == CopyDict(h, segs[i])
              IN merge_objects_loop(c.heap, segs, i + 1, c.ref,
                                    Append(out, buffer), gap)

\* dub_video.py:60-75 on references
merge_segments_objects(h, segs, gap) ==
    IF segs = <<>>
    THEN [heap |-> h, merged |-> <<>>]
    ELSE LET c == CopyDict(h, segs[1])
         IN merge_objects_loop(c.heap, segs, 2, c.ref, <<>>, gap)

\* The segment lists given as objects: ordered by start, each segment with
\* or without a "words" list.
ObjInputs ==
    UNION { { s \in [1 .. n -> [start : {0, MaxTime}, dur : {1, MaxDur},
                                words : BOOLEAN]] :
                \A i \in 1 .. n - 1 : s[i].start <= s[i + 1].start }
            : n \in 0 .. MaxObjSegs }

\* Segment i is dict i; its "words" list, if it has one, is list i.
ObjHeap(s) ==
    [dicts |->
        [i \in 1 .. Len(s) |->
            IF s[i].words
            THEN [start |-> s[i].start, end |-> s[i].start + s[i].dur,
                  text |-> <<Letters[i]>>, words |-> i]
            ELSE Seg(s[i].start, s[i].start + s[i].dur, <<Letters[i]>>)],
     lists |-> [i \in 1 .. Len(s) |-> <<Letters[i]>>]]

InitMergeObjects ==
    /\ op = "merge_segments on objects" /\ pc = "call"
    /\ \E s \in ObjInputs :
          /\ heap = ObjHeap(s)
          /\ segments = [i \in 1 .. Len(s) |-> i]
    /\ max_gap \in 0 .. MaxGap
    /\ merged = Idle
    /\ result = Idle /\ start_time = 0 /\ end_time = 0 /\ filtered = Idle
    /\ y = Idle /\ sr = 0 /\ target_duration = 0 /\ written = Idle
    /\ segment_results = Idle /\ total_duration = 0 /\ stitch_sr = 0
    /\ output_audio = Idle
    /\ PipeIdle

\* dub_video.py:48-75
MergeSegmentsObjects ==
    /\ op = "merge_segments on objects" /\ pc = "call"
    /\ LET r == merge_segments_objects(heap, segments, max_gap)
       IN /\ heap' = r.heap
          /\ merged' = r.merged
    /\ pc' = "done"
    /\ UNCHANGED <<op, segments, max_gap, projectVars, fitVars, stitchVars,
                   pipeVars>>

\* The segments the caller holds after the call, input and output.
Refs ==
    {segments[i] : i \in 1 .. Len(segments)} \cup
    {merged[i] : i \in 1 .. Len(merged)}

\* A later change to the segment at ref: seg["text"] = "x".
AssignKey(ref) ==
    /\ op = "merge_segments on objects" /\ pc = "done"
    /\ heap' = [heap EXCEPT !.dicts[ref].text = <<"x">>]
    /\ pc' = "changed"
    /\ UNCHANGED <<op, mergeVars, projectVars, fitVars, stitchVars, pipeVars>>

\* A later change to the segment at ref: seg["words"].append("x").
AppendWord(ref) ==
    /\ op = "merge_segments on objects" /\ pc = "done"
    /\ "words" \in DOMAIN heap.dicts[ref]
    /\ heap' = [heap EXCEPT !.lists[heap.dicts[ref].words] = Append(@, "x")]
    /\ pc' = "changed"
    /\ UNCHANGED <<op, mergeVars, projectVars, fitVars, stitchVars, pipeVars>>

ChangeKey == \E ref \in Refs : AssignKey(ref)
ChangeWords == \E ref \in Refs : AppendWord(ref)

NextMergeObjects == MergeSegmentsObjects \/ ChangeKey \/ ChangeWords

SpecMergeObjects == InitMergeObjects /\ [][NextMergeObjects]_vars

(********************* properties of merge_segments ***********************)
\* merge_segments has returned.
MergeDone == op = "merge_segments" /\ pc = "done"

\* The texts of a list of segments joined in order with single spaces.
RECURSIVE JoinTexts(_)
JoinTexts(segs) ==
    IF segs = <<>> THEN <<>>
    ELSE IF Len(segs) = 1 THEN segs[1].text
    ELSE segs[1].text \o <<" ">> \o JoinTexts(Tail(segs))

\* The k-th smallest element of a set of integers.
KthSmallest(S, k) == CHOOSE x \in S : Cardinality({z \in S : z < x}) = k - 1

\* A set B of cut positions (b \in B: a cut between input b and input b + 1)
\* splits 1 .. n into Cardinality(B) + 1 consecutive runs; the k-th run.
RunLo(B, k) == KthSmallest({1} \cup {b + 1 : b \in B}, k)
RunHi(B, n, k) == KthSmallest(B \cup {n}, k)

\* The segments lo .. hi of the input.
Run(segs, lo, hi) == SubSeq(segs, lo, hi)

\* The input cut at B: every output segment is one run of the input, its
\* text the run's texts joined by single spaces, its start the run's first.
IsPartitionAt(B, segs, out) ==
    /\ Len(out) = Cardinality(B) + 1
    /\ \A k \in 1 .. Len(out) :
          /\ out[k].text = JoinTexts(Run(segs, RunLo(B, k), RunHi(B, Len(segs), k)))
          /\ out[k].start = segs[RunLo(B, k)].start

\* C4: for every input ordered by start and every max_gap >= 0, the output
\* of merge_segments partitions the input into consecutive runs: no more
\* outputs than inputs, every input in exactly one output, the joined output
\* texts equal to the joined input texts; the empty input gives the empty
\* output.
C4_MergePartitions ==
    (MergeDone /\ OrderedByStart(segments) /\ max_gap >= 0) =>
        /\ Len(merged) <= Len(segments)
        /\ JoinTexts(merged) = JoinTexts(segments)
        /\ segments = <<>> => merged = <<>>
        /\ segments # <<>> =>
              \E B \in SUBSET (1 .. Len(segments) - 1) :
                  IsPartitionAt(B, segments, merged)

\* Three fragments merged into two segments: a fold and a flush both happened.
C4_Witness ==
    /\ MergeDone
    /\ Len(segments) = 3 /\ Len(merged) = 2
    /\ Len(merged[1].text) = 3

\* The cuts the fold test asks for: between input i and input i + 1 exactly
\* when the silence between them is longer than max_gap.
GapCuts(segs, gap) ==
    {i \in 1 .. Len(segs) - 1 : segs[i + 1].start - segs[i].end > gap}

\* The merged segment for the run lo .. hi: it starts with the first
\* fragment and ends with the last one folded.
RunSegment(segs, lo, hi) ==
    Seg(segs[lo].start, segs[hi].end, JoinTexts(Run(segs, lo, hi)))

\* C5: a segment is folded into the accumulator exactly when
\* segment.start - accumulator.end <= max_gap, accumulator.end being the end
\* of the segment folded last; otherwise the accumulator is flushed; the last
\* accumulator is always flushed.  The spec's scenario gives
\* [{0.0,2.0,"a b"}, {5.0,6.0,"c"}].
C5_FoldRule ==
    (MergeDone /\ segments # <<>>) =>
        LET B == GapCuts(segments, max_gap)
            n == Len(segments)
        IN /\ merged = [k \in 1 .. Cardinality(B) + 1 |->
                           RunSegment(segments, RunLo(B, k), RunHi(B, n, k))]
           /\ (segments = ScenarioSegments /\ max_gap = ScenarioGap) =>
                  merged = <<Seg(0, 20, <<"a", " ", "b">>), Seg(50, 60, <<"c">>)>>

\* The scenario has been merged.
C5_Witness ==
    /\ MergeDone
    /\ segments = ScenarioSegments /\ max_gap = ScenarioGap
    /\ Len(merged) = 2

\* Two segments share an instant of time.
Overlap(a, b) == a.start < b.end /\ b.start < a.end

\* C6: for every input ordered by start and max_gap >= 0, the output is
\* ordered by start, no two output segments overlap, and the gap between
\* consecutive output segments is strictly greater than max_gap.
C6_MergedGaps ==
    (MergeDone /\ OrderedByStart(segments) /\ max_gap >= 0) =>
        /\ OrderedByStart(merged)
        /\ \A i, j \in 1 .. Len(merged) : i < j => ~Overlap(merged[i], merged[j])
        /\ \A k \in 1 .. Len(merged) - 1 :
              merged[k + 1].start - merged[k].end > max_gap

\* A merge that eliminated a gap of exactly max_gap and kept a larger one.
C6_Witness ==
    /\ MergeDone
    /\ Len(segments) = 3 /\ Len(merged) = 2
    /\ max_gap > 0
    /\ segments[2].start - segments[1].end = max_gap
    /\ segments[3].start - segments[2].end = max_gap + 1

\* C23: for every input ordered by start, each output segment spans the
\* input segments folded into it: it starts where the first of them starts
\* and ends no earlier than any of them ends, also when a later folded
\* segment ends before an earlier one.  (Checked here on inputs whose
\* segments all have end > start.)
C23_MergedSpansFolded ==
    (MergeDone /\ OrderedByStart(segments) /\ segments # <<>>
        /\ \A i \in 1 .. Len(segments) : segments[i].end > segments[i].start) =>
        LET B == GapCuts(segments, max_gap)
            n == Len(segments)
        IN /\ Len(merged) = Cardinality(B) + 1
           /\ \A k \in 1 .. Len(merged) :
                 /\ merged[k].start = segments[RunLo(B, k)].start
                 /\ \A j \in RunLo(B, k) .. RunHi(B, n, k) :
                       merged[k].end >= segments[j].end

\* merge_segments has returned from its second call.
MergedAgain == op = "merge_segments" /\ pc = "again"

\* C25: merge_segments is idempotent: for every input ordered by start
\* with end > start in each segment and every max_gap >= 0, merging the
\* merged list again with the same max_gap gives the merged list.  (After
\* the second call, segments is the list returned by the first.)
C25_MergeIdempotent ==
    (MergedAgain /\ max_gap >= 0) => merged = segments

\* The first call folded two fragments and flushed a third; the second call
\* ran on its two segments.
C25_Witness ==
    /\ MergedAgain
    /\ Len(segments) = 2 /\ Len(merged) = 2
    /\ Len(segments[1].text) = 3
    /\ \A i \in 1 .. 2 : segments[i].end > segments[i].start

\* What the segment at ref reads as in heap h: its keys, with the "words"
\* list in place of its reference.
View(h, ref) ==
    LET d == h.dicts[ref]
    IN [start |-> d.start, end |-> d.end, text |-> d.text,
        words |-> IF "words" \in DOMAIN d THEN h.lists[d.words] ELSE <<>>]

\* The call leaves every input segment as it was.
CallKeepsInput ==
    (op = "merge_segments on objects" /\ pc = "call") =>
        \A i \in 1 .. Len(segments) :
            View(heap', segments[i]) = View(heap, segments[i])

\* C24: merge_segments leaves its input unchanged (every input segment has
\* the same start, end and text after the call), and no output segment is
\* aliased with an input segment or another output segment: a later change
\* to one segment does not show in any other.
C24_InputKeptNoAlias ==
    [][/\ CallKeepsInput
       /\ \A ref \in Refs :
             (AssignKey(ref) \/ AppendWord(ref)) =>
                 \A other \in Refs \ {ref} :
                     View(heap', other) = View(heap, other)]_vars

\* The part of C24 the code keeps: the call leaves the input as it was,
\* and assigning to a key of one segment shows in no other segment.
C24_KeysNotAliased ==
    [][/\ CallKeepsInput
       /\ \A ref \in Refs :
             AssignKey(ref) =>
                 \A other \in Refs \ {ref} :
                     View(heap', other) = View(heap, other)]_vars

(*********************** get_segments_in_range ****************************)
\* The characters str.strip() removes, as far as the inputs here use them.
Whitespace == {" ", "\t", "\n"}

\* str.lstrip(): drop the leading whitespace.
RECURSIVE LStrip(_)
LStrip(t) ==
    IF t # <<>> /\ t[1] \in Whitespace THEN LStrip(Tail(t)) ELSE t

\* str.rstrip(): drop the trailing whitespace.
RECURSIVE RStrip(_)
RStrip(t) ==
    IF t # <<>> /\ t[Len(t)] \in Whitespace
    THEN RStrip(SubSeq(t, 1, Len(t) - 1)) ELSE t

\* A bug the text handling could have: only the leading whitespace goes.
Strip_left(t) == LStrip(t)

\* transcribe.py:92, str.strip()
Strip(t) == RStrip(LStrip(t))

\* A bug the filter could have: a segment touching the window is kept.
InRange_touching(seg_start, seg_end, ws, we) == seg_end >= ws /\ seg_start <= we

\* transcribe.py:88
InRange(seg_start, seg_end, ws, we) == seg_end > ws /\ seg_start < we

\* A bug the re-basing could have: the start is not clipped at the window.
RebaseStart_unclipped(seg_start, ws) == seg_start - ws

\* A bug the re-basing could have: the start stays absolute.
RebaseStart_absolute(seg_start, ws) == Max(0, seg_start)

\* transcribe.py:90 (and :104 for a word)
RebaseStart(seg_start, ws) == Max(0, seg_start - ws)

\* A bug the re-basing could have: the end is not clipped at the window.
RebaseEnd_unclipped(seg_end, ws, we) == seg_end - ws

\* transcribe.py:91 (and :105 for a word)
RebaseEnd(seg_end, ws, we) == Min(we - ws, seg_end - ws)

\* transcribe.py:99-100: word.get("start", 0), word.get("end", 0)
WordStart(word) == IF "start" \in DOMAIN word THEN word.start ELSE 0
WordEnd(word) == IF "end" \in DOMAIN word THEN word.end ELSE 0

\* A bug the word filter could have: every word of a kept segment is kept.
WordInRange_all(w_start, w_end, ws, we) == TRUE

\* transcribe.py:101
WordInRange(w_start, w_end, ws, we) == w_end > ws /\ w_start < we

\* transcribe.py:102-106: the adjusted word
AdjustedWord(word, ws, we) ==
    [word |-> word.word,
     start |-> RebaseStart(WordStart(word), ws),
     end |-> RebaseEnd(WordEnd(word), ws, we)]

\* transcribe.py:97-106: the loop over the words of a segment
RECURSIVE words_loop(_, _, _, _, _)
words_loop(words, i, out, ws, we) ==
    IF i > Len(words)
    THEN out
    ELSE IF WordInRange(WordStart(words[i]), WordEnd(words[i]), ws, we)
         THEN words_loop(words, i + 1, Append(out, AdjustedWord(words[i], ws, we)),
                         ws, we)
         ELSE words_loop(words, i + 1, out, ws, we)

\* transcribe.py:89-106: the adjusted segment, with its words when the
\* segment carries any
Adjusted(seg, ws, we) ==
    IF "words" \in DOMAIN seg
    THEN [start |-> RebaseStart(seg.start, ws),
          end |-> RebaseEnd(seg.end, ws, we),
          text |-> Strip(seg.text),
          words |-> words_loop(seg.words, 1, <<>>, ws, we)]
    ELSE Seg(RebaseStart(seg.start, ws), RebaseEnd(seg.end, ws, we),
             Strip(seg.text))

\* transcribe.py:83-108: the loop over the segments
RECURSIVE project_loop(_, _, _, _, _)
project_loop(segs, i, out, ws, we) ==
    IF i > Len(segs)
    THEN out
    ELSE IF InRange(segs[i].start, segs[i].end, ws, we)
         THEN project_loop(segs, i + 1, Append(out, Adjusted(segs[i], ws, we)), ws, we)
         ELSE project_loop(segs, i + 1, out, ws, we)

\* transcribe.py:67-110; result.get("segments", []) is the list itself here.
get_segments_in_range(res, ws, we) == project_loop(res, 1, <<>>, ws, we)

\* The i-th segment's text: the i-th letter, with whitespace around and
\* inside it that differs from position to position.
ProjText(i) ==
    CASE i % 3 = 1 -> <<" ", Letters[i], " ", Letters[i], "\t">>
      [] i % 3 = 2 -> <<Letters[i]>>
      [] OTHER     -> <<"\n", Letters[i]>>

ProjectInputs ==
    UNION { { s \in [1 .. n -> [start : 0 .. MaxTime, dur : Durations]] :
                \A i \in 1 .. n - 1 : s[i].start <= s[i + 1].start }
            : n \in 0 .. MaxProjSegs }

ProjectInput(s) ==
    [i \in 1 .. Len(s) |-> Seg(s[i].start, s[i].start + s[i].dur, ProjText(i))]

InitProject ==
    /\ op = "get_segments_in_range" /\ pc = "call"
    /\ heap = Idle
    /\ \E s \in ProjectInputs : result = ProjectInput(s)
    /\ start_time \in 0 .. MaxWinStart
    /\ end_time \in 0 .. MaxTime + 1
    /\ filtered = Idle
    /\ segments = Idle /\ max_gap = 0 /\ merged = Idle
    /\ y = Idle /\ sr = 0 /\ target_duration = 0 /\ written = Idle
    /\ segment_results = Idle /\ total_duration = 0 /\ stitch_sr = 0
    /\ output_audio = Idle
    /\ PipeIdle

GetSegmentsInRange ==
    /\ op = "get_segments_in_range" /\ pc = "call"
    /\ filtered' = get_segments_in_range(result, start_time, end_time)
    /\ pc' = "done"
    /\ UNCHANGED <<op, heap, result, start_time, end_time, mergeVars, fitVars, stitchVars,
                   pipeVars>>

NextProject == GetSegmentsInRange

SpecProject == InitProject /\ [][NextProject]_vars

\* The words of a segment: ordered by start, each end >= start.
WordInputs ==
    UNION { { w \in [1 .. n -> [start : 0 .. MaxTime, dur : 0 .. MaxDur]] :
                \A i \in 1 .. n - 1 : w[i].start <= w[i + 1].start }
            : n \in 0 .. MaxWords }

WordList(w) ==
    [i \in 1 .. Len(w) |->
        [word |-> Letters[i], start |-> w[i].start, end |-> w[i].start + w[i].dur]]

\* The segment that carries the words w: it spans them, as Whisper's
\* segments do; a segment without any word spans [0, MaxDur].
SegmentOfWords(w) ==
    LET words == WordList(w)
        lo == IF w = <<>> THEN 0 ELSE words[1].start
        hi == IF w = <<>> THEN MaxDur
              ELSE CHOOSE e \in {words[i].end : i \in 1 .. Len(w)} :
                       \A i \in 1 .. Len(w) : words[i].end <= e
    IN [start |-> lo, end |-> hi, text |-> ProjText(1), words |-> words]

\* get_segments_in_range on a transcript with word-level time stamps.
InitProjectWords ==
    /\ op = "get_segments_in_range" /\ pc = "call"
    /\ heap = Idle
    /\ \E w \in WordInputs : result = <<SegmentOfWords(w)>>
    /\ start_time \in 0 .. MaxWinStart
    /\ end_time \in 0 .. MaxTime + 1
    /\ filtered = Idle
    /\ segments = Idle /\ max_gap = 0 /\ merged = Idle
    /\ y = Idle /\ sr = 0 /\ target_duration = 0 /\ written = Idle
    /\ segment_results = Idle /\ total_duration = 0 /\ stitch_sr = 0
    /\ output_audio = Idle
    /\ PipeIdle

SpecProjectWords == InitProjectWords /\ [][NextProject]_vars

\* merge_segments or get_segments_in_range, on a list of segments each.
InitSegments == InitMerge \/ InitProject

NextSegments == MergeSegments \/ GetSegmentsInRange

SpecSegments == InitSegments /\ [][NextSegments]_vars

(*********************** adjust_audio_duration ****************************)
\* A rational number num / den with den > 0, for the float arithmetic on
\* durations and speed factors.
Rat(num, den) == [num |-> num, den |-> den]
RatLess(a, b) == a.num * b.den < b.num * a.den

\* int(num / den): Python's int() truncates toward zero.
IntTrunc(num, den) ==
    IF num >= 0 THEN num \div den ELSE -((-num) \div den)

\* round(num / den) for num >= 0: Python's round() goes to the nearest
\* integer and, of two equally near, to the even one.
Round(num, den) ==
    LET q == num \div den
        r == num % den
    IN IF 2 * r < den THEN q
       ELSE IF 2 * r > den THEN q + 1
       ELSE IF q % 2 = 0 THEN q ELSE q + 1

\* seq[:stop] in Python: a negative stop counts from the end.
PySliceTo(seq, stop) ==
    IF stop >= 0 THEN SubSeq(seq, 1, Min(stop, Len(seq)))
    ELSE SubSeq(seq, 1, Max(0, Len(seq) + stop))

\* n samples of silence.
Zeros(n) == [i \in 1 .. n |-> 0]

\* np.pad(seq, (0, n)): n trailing zeros.
PadRight(seq, n) == seq \o Zeros(n)

\* A bug the degenerate test could have: it is left out.
IsDegenerate_never(n, rate, target) == FALSE

\* tts.py:119-121: current_duration = len(y) / sr is 0 exactly when the clip
\* has no samples.
IsDegenerate(n, rate, target) == n = 0 \/ target = 0

\* tts.py:125: current_duration / target_duration, for target # 0, with
\* current_duration = n / rate seconds and target_duration = target /
\* TicksPerSec seconds.
SpeedFactor(n, rate, target) ==
    IF target > 0 THEN Rat(n * TicksPerSec, rate * target)
    ELSE Rat(-(n * TicksPerSec), rate * (-target))

\* A bug the clamp could have: no upper limit.
Clamp_nomax(f) == IF RatLess(f, Rat(1, 2)) THEN Rat(1, 2) ELSE f

\* tts.py:128: max(0.5, min(2.0, speed_factor))
Clamp(f) ==
    IF RatLess(Rat(2, 1), f) THEN Rat(2, 1)
    ELSE IF RatLess(f, Rat(1, 2)) THEN Rat(1, 2)
    ELSE f

\* A bug the band test could have: the band is never entered.
InBand_never(f) == FALSE

\* tts.py:130: abs(speed_factor - 1.0) < 0.05
InBand(f) == 20 * Abs(f.num - f.den) < f.den

\* tts.py:134, librosa.effects.time_stretch(y, rate): the result has
\* int(round(len(y) / rate)) samples; its i-th sample is taken here from the
\* input at the same relative position.
time_stretch(clip, rate) ==
    LET n == Len(clip)
        len_stretch == Round(n * rate.den, rate.num)
    IN [i \in 1 .. len_stretch |-> clip[((i - 1) * n) \div len_stretch + 1]]

\* A bug the sample count could have: rounding in place of int().
TargetSamples_round(rate, target) ==
    IF target >= 0 THEN Round(target * rate, TicksPerSec)
    ELSE -Round((-target) * rate, TicksPerSec)

\* tts.py:137: int(target_duration * sr)
TargetSamples(rate, target) == IntTrunc(target * rate, TicksPerSec)

\* A bug the trim/pad could have: a short result is not padded.
TrimOrPad_trimonly(stretched, target_samples) ==
    IF Len(stretched) > target_samples
    THEN PySliceTo(stretched, target_samples)
    ELSE stretched

\* tts.py:138-141
TrimOrPad(stretched, target_samples) ==
    IF Len(stretched) > target_samples
    THEN PySliceTo(stretched, target_samples)
    ELSE IF Len(stretched) < target_samples
         THEN PadRight(stretched, target_samples - Len(stretched))
         ELSE stretched

\* tts.py:118-145: the samples adjust_audio_duration writes to output_path.
adjust_audio_duration(clip, rate, target) ==
    IF IsDegenerate(Len(clip), rate, target)
    THEN clip
    ELSE LET speed_factor == Clamp(SpeedFactor(Len(clip), rate, target))
         IN IF InBand(speed_factor)
            THEN clip
            ELSE TrimOrPad(time_stretch(clip, speed_factor),
                           TargetSamples(rate, target))

\* The clip of n samples; the i-th sample has the value i, so that an output
\* sample tells which input sample it is.
Clip(n) == [i \in 1 .. n |-> i]

InitFit ==
    /\ op = "adjust_audio_duration" /\ pc = "call"
    /\ heap = Idle
    /\ \E n \in 0 .. MaxSamples : y = Clip(n)
    /\ sr \in 1 .. MaxRate
    /\ target_duration \in (-MinTarget) .. MaxTarget
    /\ written = Idle
    /\ segments = Idle /\ max_gap = 0 /\ merged = Idle
    /\ result = Idle /\ start_time = 0 /\ end_time = 0 /\ filtered = Idle
    /\ segment_results = Idle /\ total_duration = 0 /\ stitch_sr = 0
    /\ output_audio = Idle
    /\ PipeIdle

AdjustAudioDuration ==
    /\ op = "adjust_audio_duration" /\ pc = "call"
    /\ written' = adjust_audio_duration(y, sr, target_duration)
    /\ pc' = "done"
    /\ UNCHANGED <<op, heap, y, sr, target_duration, mergeVars, projectVars,
                   stitchVars, pipeVars>>

NextFit == AdjustAudioDuration

SpecFit == InitFit /\ [][NextFit]_vars

(******************** stitch_segments_with_timing *************************)
\* The length of array[start:stop] for a numpy array of n elements and
\* start, stop >= 0: both indices are clipped to n.
SliceLen(n, start, stop) == Max(0, Min(stop, n) - Min(start, n))

\* output_audio[start:stop] = value succeeds when the value is as long as
\* the slice or has one element, which numpy broadcasts; otherwise numpy
\* raises ValueError.
CanAssign(n, start, stop, value) ==
    Len(value) = SliceLen(n, start, stop) \/ Len(value) = 1

\* The canvas after output_audio[start:stop] = value.
AssignSlice(canvas, start, stop, value) ==
    [i \in 1 .. Len(canvas) |->
        IF start < i /\ i <= Min(stop, Len(canvas))
        THEN (IF Len(value) = 1 THEN value[1] ELSE value[i - start])
        ELSE canvas[i]]

\* A bug the placement could have: the start is rounded to the nearest
\* sample.
StartSample_round(start, rate) == Round(start * rate, TicksPerSec)

\* tts.py:167: int(seg["start"] * sr)
StartSample(start, rate) == IntTrunc(start * rate, TicksPerSec)

\* A bug the truncation could have: the clip is not cut.
Truncated_uncut(clip, start_sample, total_samples) == clip

\* tts.py:171-172: the clip, cut when it would end after the canvas
Truncated(clip, start_sample, total_samples) ==
    IF start_sample + Len(clip) > total_samples
    THEN PySliceTo(clip, total_samples - start_sample)
    ELSE clip

\* tts.py:168-173: end_sample, clamped to the canvas
EndSample(clip, start_sample, total_samples) ==
    IF start_sample + Len(clip) > total_samples
    THEN total_samples
    ELSE start_sample + Len(clip)

\* tts.py:165-175: the loop over the clips, from clip i on.  The result is
\* the canvas and whether the slice assignment raised.
RECURSIVE stitch_loop(_, _, _, _)
stitch_loop(clips, i, canvas, rate) ==
    IF i > Len(clips)
    THEN [canvas |-> canvas, raised |-> FALSE]
    ELSE LET total_samples == Len(canvas)
             start_sample == StartSample(clips[i].start, rate)
             end_sample == EndSample(clips[i].samples, start_sample, total_samples)
             value == Truncated(clips[i].samples, start_sample, total_samples)
         IN IF CanAssign(total_samples, start_sample, end_sample, value)
            THEN stitch_loop(clips, i + 1,
                             AssignSlice(canvas, start_sample, end_sample, value),
                             rate)
            ELSE [canvas |-> canvas, raised |-> TRUE]

\* A bug the canvas could have: its length is rounded to the nearest sample.
TotalSamples_round(total, rate) == Round(total * rate, TicksPerSec)

\* tts.py:162: int(total_duration * sr)
TotalSamples(total, rate) == IntTrunc(total * rate, TicksPerSec)

\* tts.py:148-181
stitch_segments_with_timing(clips, total, rate) ==
    stitch_loop(clips, 1, Zeros(TotalSamples(total, rate)), rate)

\* The adjusted audio of clip c, n samples long: its i-th sample has the
\* value 10 * c + i, so that a canvas sample tells its clip and position.
ClipSamples(c, n) == [i \in 1 .. n |-> 10 * c + i]

StitchInputs ==
    UNION { [1 .. n -> [start : 0 .. MaxStart, len : 0 .. MaxClipLen]]
            : n \in 0 .. MaxClips }

StitchInput(s) ==
    [c \in 1 .. Len(s) |->
        [start |-> s[c].start, samples |-> ClipSamples(c, s[c].len)]]

\* spec.md scenario at 4 ticks per second and 2 samples per second:
\* total_duration = 10.0 s (40 ticks), one clip of 1.0 s at start = 9.5 s.
ScenarioClips == <<[start |-> 38, samples |-> ClipSamples(1, 2)]>>

InitStitch ==
    /\ op = "stitch_segments_with_timing" /\ pc = "call"
    /\ heap = Idle
    /\ \/ /\ \E s \in StitchInputs : segment_results = StitchInput(s)
          /\ total_duration \in 0 .. MaxTotal
          /\ stitch_sr = MaxRate
       \/ /\ segment_results = ScenarioClips
          /\ total_duration = 40
          /\ stitch_sr = 2
    /\ output_audio = Idle
    /\ segments = Idle /\ max_gap = 0 /\ merged = Idle
    /\ result = Idle /\ start_time = 0 /\ end_time = 0 /\ filtered = Idle
    /\ y = Idle /\ sr = 0 /\ target_duration = 0 /\ written = Idle
    /\ PipeIdle

StitchSegmentsWithTiming ==
    /\ op = "stitch_segments_with_timing" /\ pc = "call"
    /\ LET r == stitch_segments_with_timing(segment_results, total_duration,
                                            stitch_sr)
       IN /\ output_audio' = r.canvas
          /\ pc' = IF r.raised THEN "raised" ELSE "done"
    /\ UNCHANGED <<op, heap, segment_results, total_duration, stitch_sr,
                   mergeVars, projectVars, fitVars, pipeVars>>

NextStitch == StitchSegmentsWithTiming

SpecStitch == InitStitch /\ [][NextStitch]_vars

(******************************* main **************************************)
\* The paths of the files main writes (config.get_pipeline_paths and
\* tts.py:80,89): a name and, for the per-segment files, the segment index.
SegPath(i) == <<"segment", i>>
AdjustedPath(i) == <<"segment_adjusted", i>>
HindiTranscript == <<"hindi_transcript", 0>>
HindiAudio == <<"hindi_audio", 0>>
FinalOutput == <<"final_output", 0>>

Written(path) == \E f \in files : f[1] = path
Content(path) == (CHOOSE f \in files : f[1] = path)[2]

\* What translate_text may return for a text: the translation model is not
\* part of the repository, so any of these; the first one is blank.
HindiTexts == {<<" ">>, <<"h", " ">>}

\* A bug translate_segments could have: the entry is rebased to start at 0.
TranslatedEntry_rebased(seg, original_text, hindi_text) ==
    [start |-> 0, end |-> seg.end - seg.start,
     english |-> original_text, hindi |-> hindi_text]

\* translate.py:156-161
TranslatedEntry(seg, original_text, hindi_text) ==
    [start |-> seg.start, end |-> seg.end,
     english |-> original_text, hindi |-> hindi_text]

\* tts.py:81
TargetDuration(seg) == seg.end - seg.start

\* A bug generate_segment_audio could have: the newest result comes first.
AppendResult_front(list, r) == <<r>> \o list

\* tts.py:92: results.append
AppendResult(list, r) == Append(list, r)

\* tts.py:92-100
ResultEntry(i, seg, hindi_text) ==
    [index |-> i, start |-> seg.start, end |-> seg.end, hindi |-> hindi_text,
     raw_audio |-> SegPath(i), adjusted_audio |-> AdjustedPath(i),
     target_duration |-> TargetDuration(seg)]

\* What an exception raised inside a call can tell of the call: nothing, or
\* the arguments the call was given.
Carried(call_args) == {{}, call_args}

\* A bug generate_segment_audio could have: it notes the exception of a
\* segment and goes on with the next segment.
Propagate_skip(err) ==
    /\ error' = err
    /\ loop_i' = loop_i + 1
    /\ pc' = pc

\* tts.py:75-100 and dub_video.py:172-180 have no try/except: an exception
\* raised by a call of the loop body leaves the loop, generate_segment_audio
\* and main.
Propagate(err) ==
    /\ error' = err
    /\ loop_i' = loop_i
    /\ pc' = "raised"

\* The segments the recogniser gives to main: ordered by start, some with a
\* blank text, some further than max_gap from the one before.
PipeInputs ==
    UNION { { s \in [1 .. n -> [start : {0, 1, MaxPipeStart}, dur : 0 .. MaxDur,
                                blank : BOOLEAN]] :
                \A i \in 1 .. n - 1 : s[i].start <= s[i + 1].start }
            : n \in 0 .. MaxPipeSegs }

PipeInput(s) ==
    [i \in 1 .. Len(s) |->
        Seg(s[i].start, s[i].start + s[i].dur,
            IF s[i].blank THEN <<" ">> ELSE <<Letters[i], " ">>)]

\* dub_video.py:81-143: main up to the recogniser's segments.  max_gap is
\* the 1.0 s of dub_video.py:153.
InitMain ==
    /\ op = "main" /\ pc = "merge_segments"
    /\ heap = Idle
    /\ \E s \in PipeInputs : segments = PipeInput(s)
    /\ max_gap = TicksPerSec
    /\ merged = Idle
    /\ \E st \in 0 .. 1, total \in {MaxTotal, MaxPipeStart + MaxDur},
          nl \in BOOLEAN :
          args = [start |-> st, end |-> st + total, no_lipsync |-> nl]
    /\ translated = Idle /\ results = Idle
    /\ model_loaded = FALSE /\ tts_loaded = FALSE /\ loop_i = 0
    /\ files = {} /\ error = NoError
    /\ segment_results = Idle /\ total_duration = 0 /\ stitch_sr = 0
    /\ output_audio = Idle
    /\ result = Idle /\ start_time = 0 /\ end_time = 0 /\ filtered = Idle
    /\ y = Idle /\ sr = 0 /\ target_duration = 0 /\ written = Idle

\* dub_video.py:153
MainMergeSegments ==
    /\ op = "main" /\ pc = "merge_segments"
    /\ merged' = merge_segments(segments, max_gap)
    /\ pc' = "translate_segments"
    /\ UNCHANGED <<op, heap, segments, max_gap, projectVars, fitVars, stitchVars,
                   pipeVars>>

\* dub_video.py:156, translate.py:142-145: _load_model() and the empty list
TranslateSegmentsBegin ==
    /\ op = "main" /\ pc = "translate_segments"
    /\ model_loaded' = TRUE
    /\ translated' = <<>>
    /\ loop_i' = 0
    /\ pc' = "translate_loop"
    /\ UNCHANGED <<op, heap, mergeVars, projectVars, fitVars, stitchVars,
                   args, tts_loaded, results, files, error>>

\* translate.py:147-161: one iteration of the loop
TranslateSegmentsStep ==
    /\ op = "main" /\ pc = "translate_loop"
    /\ loop_i < Len(merged)
    /\ LET seg == merged[loop_i + 1]
           original_text == Strip(seg.text)
       IN IF original_text = <<>>
          THEN translated' = translated
          ELSE \E hindi_text \in HindiTexts :
                  translated' =
                      Append(translated,
                             TranslatedEntry(seg, original_text, hindi_text))
    /\ loop_i' = loop_i + 1
    /\ UNCHANGED <<op, heap, pc, mergeVars, projectVars, fitVars, stitchVars,
                   args, model_loaded, tts_loaded, results, files, error>>

\* translate.py:163
TranslateSegmentsReturn ==
    /\ op = "main" /\ pc = "translate_loop"
    /\ loop_i >= Len(merged)
    /\ pc' = "save_translated_transcript"
    /\ UNCHANGED <<op, heap, mergeVars, projectVars, fitVars, stitchVars, pipeVars>>

\* dub_video.py:157
SaveTranslatedTranscript ==
    /\ op = "main" /\ pc = "save_translated_transcript"
    /\ files' = files \cup {<<HindiTranscript, translated>>}
    /\ pc' = "unload_model"
    /\ UNCHANGED <<op, heap, mergeVars, projectVars, fitVars, stitchVars,
                   args, translated, model_loaded, tts_loaded, loop_i,
                   results, error>>

\* A bug unload_model could have: the model stays in memory.
Unloaded_kept(loaded) == loaded

\* translate.py:59-63: after unload_model, _model is None
Unloaded(loaded) == FALSE

\* dub_video.py:160, translate.py:56-68
UnloadTranslateModel ==
    /\ op = "main" /\ pc = "unload_model"
    /\ model_loaded' = Unloaded(model_loaded)
    /\ pc' = "generate_segment_audio"
    /\ UNCHANGED <<op, heap, mergeVars, projectVars, fitVars, stitchVars,
                   args, translated, tts_loaded, loop_i, results, files,
                   error>>

\* dub_video.py:172, tts.py:72-73
GenerateSegmentAudioBegin ==
    /\ op = "main" /\ pc = "generate_segment_audio"
    /\ results' = <<>>
    /\ loop_i' = 0
    /\ pc' = "tts_loop"
    /\ UNCHANGED <<op, heap, mergeVars, projectVars, fitVars, stitchVars,
                   args, translated, model_loaded, tts_loaded, files, error>>

\* tts.py:75-100: one iteration of the loop.  generate_hindi_speech writes a
\* clip of some length or raises; adjust_audio_duration writes the fitted
\* clip or raises.  The synthesiser writes at the rate MaxRate.
GenerateSegmentAudioStep ==
    /\ op = "main" /\ pc = "tts_loop"
    /\ loop_i < Len(translated)
    /\ LET seg == translated[loop_i + 1]
           hindi_text == Strip(seg.hindi)
           speech_args == {<<"text", hindi_text>>,
                           <<"output_path", SegPath(loop_i)>>}
           adjust_args == {<<"audio_path", SegPath(loop_i)>>,
                           <<"target_duration", TargetDuration(seg)>>,
                           <<"output_path", AdjustedPath(loop_i)>>}
       IN IF hindi_text = <<>>
          THEN /\ loop_i' = loop_i + 1
               /\ UNCHANGED <<pc, tts_loaded, results, files, error>>
          ELSE /\ tts_loaded' = TRUE
               /\ \/ /\ \E told \in Carried(speech_args) :
                           Propagate([call |-> "generate_hindi_speech",
                                      args |-> told])
                     /\ UNCHANGED <<results, files>>
                  \/ \E n \in 1 .. MaxRaw :
                        LET raw == ClipSamples(loop_i + 1, n)
                            fitted == adjust_audio_duration(raw, MaxRate,
                                                            TargetDuration(seg))
                        IN \/ /\ files' = files \cup {<<SegPath(loop_i), raw>>}
                              /\ \E told \in Carried(adjust_args) :
                                    Propagate([call |-> "adjust_audio_duration",
                                               args |-> told])
                              /\ UNCHANGED results
                           \/ /\ files' = files \cup
                                     {<<SegPath(loop_i), raw>>,
                                      <<AdjustedPath(loop_i), fitted>>}
                              /\ results' =
                                     AppendResult(results,
                                                  ResultEntry(loop_i, seg, hindi_text))
                              /\ loop_i' = loop_i + 1
                              /\ UNCHANGED <<pc, error>>
    /\ UNCHANGED <<op, heap, mergeVars, projectVars, fitVars, stitchVars,
                   args, translated, model_loaded>>

\* tts.py:102, dub_video.py:172
GenerateSegmentAudioReturn ==
    /\ op = "main" /\ pc = "tts_loop"
    /\ loop_i >= Len(translated)
    /\ segment_results' = results
    /\ pc' = "stitch_segments_with_timing"
    /\ UNCHANGED <<op, heap, mergeVars, projectVars, fitVars, total_duration,
                   stitch_sr, output_audio, pipeVars>>

\* tts.py:166: the clips the compositor loads, in the order of its argument.
LoadedClips(list) ==
    [c \in 1 .. Len(list) |->
        [start |-> list[c].start, samples |-> Content(list[c].adjusted_audio)]]

\* dub_video.py:95,180: stitch_segments_with_timing(segment_results,
\* end - start, hindi_audio), which writes the canvas or raises.
MainStitch ==
    /\ op = "main" /\ pc = "stitch_segments_with_timing"
    /\ total_duration' = args.end - args.start
    /\ stitch_sr' = MaxRate
    /\ LET r == stitch_segments_with_timing(LoadedClips(segment_results),
                                            args.end - args.start, MaxRate)
       IN /\ output_audio' = r.canvas
          /\ IF r.raised
             THEN /\ pc' = "raised"
                  /\ error' = [call |-> "stitch_segments_with_timing",
                               args |-> {}]
                  /\ UNCHANGED files
             ELSE /\ pc' = "lipsync"
                  /\ files' = files \cup {<<HindiAudio, r.canvas>>}
                  /\ UNCHANGED error
    /\ UNCHANGED <<op, heap, mergeVars, projectVars, fitVars, segment_results,
                   args, translated, model_loaded, tts_loaded, loop_i, results>>

\* dub_video.py:189-204: lipsync_video if the checkpoint file exists, else
\* merge_audio_video; either writes the final output.
MainLipsync ==
    /\ op = "main" /\ pc = "lipsync"
    /\ \E checkpoint \in BOOLEAN :
          files' = files \cup
              {<<FinalOutput,
                 IF checkpoint THEN "lipsync_video" ELSE "merge_audio_video">>}
    /\ pc' = "done"
    /\ UNCHANGED <<op, heap, mergeVars, projectVars, fitVars, stitchVars,
                   args, translated, model_loaded, tts_loaded, loop_i,
                   results, error>>

NextMain ==
    \/ MainMergeSegments
    \/ TranslateSegmentsBegin
    \/ TranslateSegmentsStep
    \/ TranslateSegmentsReturn
    \/ SaveTranslatedTranscript
    \/ UnloadTranslateModel
    \/ GenerateSegmentAudioBegin
    \/ GenerateSegmentAudioStep
    \/ GenerateSegmentAudioReturn
    \/ MainStitch
    \/ MainLipsync

SpecMain == InitMain /\ [][NextMain]_vars

(************** properties of stitch_segments_with_timing *****************)
\* stitch_segments_with_timing has returned or raised.
StitchEnded == op = "stitch_segments_with_timing" /\ pc \in {"done", "raised"}

\* C3: for every clip whose end_sample = start_sample + len(samples) exceeds
\* the canvas length, whatever its start, the clip is truncated to fit and no
\* error is raised: the call returns, and the canvas holds, from the clip's
\* start_sample to the canvas end, the clip's first samples (checked for the
\* clip placed last, which no other clip overwrites).
C3_OverrunTruncated ==
    StitchEnded =>
        /\ pc = "done"
        /\ segment_results # <<>> =>
              LET clip == segment_results[Len(segment_results)]
                  start_sample == (clip.start * stitch_sr) \div TicksPerSec
                  total_samples == Len(output_audio)
              IN start_sample + Len(clip.samples) > total_samples =>
                    \A i \in start_sample + 1 .. total_samples :
                        output_audio[i] = clip.samples[i - start_sample]

\* The spec's scenario: the clip at 9.5 s of a 10.0 s canvas is cut to its
\* first 0.5 s, placed at the canvas end (samples [19, 20) at 2 samples per
\* second, [152000, 160000) at 16000).
C3_Scenario ==
    (StitchEnded /\ segment_results = ScenarioClips
        /\ total_duration = 40 /\ stitch_sr = 2) =>
        /\ pc = "done"
        /\ output_audio = [i \in 1 .. 20 |-> IF i = 20 THEN 11 ELSE 0]

\* C14 as stated: the canvas has round(total_duration * sample_rate)
\* samples, before and after every clip placement, and with no clip all of
\* them are silent.
C14_CanvasRound ==
    StitchEnded =>
        /\ Len(output_audio) = Round(total_duration * stitch_sr, TicksPerSec)
        /\ segment_results = <<>> =>
              (pc = "done" /\ \A i \in 1 .. Len(output_audio) : output_audio[i] = 0)

\* C14 amended: the canvas has int(total_duration * sample_rate) samples
\* (truncated, not rounded), after any number of clip placements, and with
\* no clip all of them are silent.
C14_CanvasTrunc ==
    StitchEnded =>
        /\ Len(output_audio) = (total_duration * stitch_sr) \div TicksPerSec
        /\ segment_results = <<>> =>
              (pc = "done" /\ \A i \in 1 .. Len(output_audio) : output_audio[i] = 0)

\* Two clips were placed, the second one cut at the canvas end, on a canvas
\* whose duration is not a whole number of samples.
C14_Witness ==
    /\ StitchEnded /\ pc = "done" /\ Len(segment_results) = 2
    /\ 2 * ((total_duration * stitch_sr) % TicksPerSec) > TicksPerSec
    /\ Len(output_audio) > 0
    /\ Len(segment_results[2].samples) > 1
    /\ output_audio[Len(output_audio)] = segment_results[2].samples[1]

\* The placement [lo, hi) of clip c when its start sample is at(start, sr).
PlaceLo(at(_, _), c) == at(segment_results[c].start, stitch_sr)
PlaceHi(at(_, _), c) == PlaceLo(at, c) + Len(segment_results[c].samples)

\* No two clips overlap and every clip fits in the canvas.
DisjointAndFit(at(_, _)) ==
    /\ \A c \in 1 .. Len(segment_results) : PlaceHi(at, c) <= Len(output_audio)
    /\ \A c, d \in 1 .. Len(segment_results) :
          c < d => (PlaceHi(at, c) <= PlaceLo(at, d) \/ PlaceHi(at, d) <= PlaceLo(at, c))

\* Every clip's samples are in the canvas at its placement, and every other
\* sample of the canvas is silent.
PlacedAt(at(_, _)) ==
    /\ \A c \in 1 .. Len(segment_results) :
          \A i \in 1 .. Len(segment_results[c].samples) :
              output_audio[PlaceLo(at, c) + i] = segment_results[c].samples[i]
    /\ \A i \in 1 .. Len(output_audio) :
          (\A c \in 1 .. Len(segment_results) :
              ~(PlaceLo(at, c) < i /\ i <= PlaceHi(at, c)))
          => output_audio[i] = 0

RoundedStart(start, rate) == Round(start * rate, TicksPerSec)
TruncatedStart(start, rate) == (start * rate) \div TicksPerSec

\* C15 as stated: for clips that do not overlap and fit in the canvas, each
\* clip's samples are in the output at [round(start * sample_rate),
\* round(start * sample_rate) + len(samples)), and every sample that no clip
\* covers is silent.
C15_PlacedAtRound ==
    (StitchEnded /\ DisjointAndFit(RoundedStart)) =>
        (pc = "done" /\ PlacedAt(RoundedStart))

\* C15 amended: the same with the start sample int(start * sample_rate)
\* (truncated, not rounded).
C15_PlacedAtTrunc ==
    (StitchEnded /\ DisjointAndFit(TruncatedStart)) =>
        (pc = "done" /\ PlacedAt(TruncatedStart))

\* Two clips one after the other with silence after them, the second
\* starting half-way between two samples.
C15_Witness ==
    /\ StitchEnded /\ pc = "done" /\ Len(segment_results) = 2
    /\ DisjointAndFit(TruncatedStart)
    /\ Len(segment_results[1].samples) > 0 /\ Len(segment_results[2].samples) > 0
    /\ PlaceHi(TruncatedStart, 1) <= PlaceLo(TruncatedStart, 2)
    /\ PlaceHi(TruncatedStart, 2) < Len(output_audio)
    /\ 2 * ((segment_results[2].start * stitch_sr) % TicksPerSec) >= TicksPerSec

\* The clips whose placement covers sample i of the canvas.
Covering(i) ==
    {c \in 1 .. Len(segment_results) :
        PlaceLo(TruncatedStart, c) < i /\ i <= PlaceHi(TruncatedStart, c)}

\* Every sample that some clip covers holds the value of the last clip, in
\* input order, that covers it.
LastWins ==
    \A i \in 1 .. Len(output_audio) :
        Covering(i) # {} =>
            LET c == CHOOSE c \in Covering(i) : \A d \in Covering(i) : d <= c
            IN output_audio[i] =
                   segment_results[c].samples[i - PlaceLo(TruncatedStart, c)]

\* Some two clips have overlapping placements.
SomeOverlap ==
    \E c, d \in 1 .. Len(segment_results) :
        /\ c < d
        /\ PlaceLo(TruncatedStart, c) < PlaceHi(TruncatedStart, d)
        /\ PlaceLo(TruncatedStart, d) < PlaceHi(TruncatedStart, c)

\* C16: when clip placements overlap, the call does not fail, and every
\* sample in an overlapped region holds the value of the clip that comes
\* latest in the input sequence among those covering it, for every input
\* order.
C16_OverlapLastWins ==
    (StitchEnded /\ SomeOverlap) => (pc = "done" /\ LastWins)

\* The part of C16 the code keeps: when every clip starts inside the canvas
\* the call returns and the latest clip wins.
C16_LastWinsInsideCanvas ==
    (StitchEnded /\ SomeOverlap
        /\ \A c \in 1 .. Len(segment_results) :
              PlaceLo(TruncatedStart, c) <= Len(output_audio)) =>
        (pc = "done" /\ LastWins)

(*************************** properties of main ****************************)
\* The exception of a segment's synthesis or fit left the loop.
SegmentFailed ==
    op = "main" /\ error.call \in {"generate_hindi_speech", "adjust_audio_duration"}

\* The compositor was invoked.
StitchInvoked ==
    op = "main" /\ (Written(HindiAudio) \/ error.call = "stitch_segments_with_timing")

\* The positions of the segments whose text / translation is not blank.
NonBlankText(segs) == {k \in 1 .. Len(segs) : Strip(segs[k].text) # <<>>}
NonBlankHindi(list) == {k \in 1 .. Len(list) : Strip(list[k].hindi) # <<>>}

\* C17: when the synthesis or the fit of a segment fails, the failure leaves
\* the loop and the run (the segment is not skipped), no later segment is
\* processed, the compositor is never invoked and neither the composited
\* track nor the final video is produced.
C17_FailFast ==
    SegmentFailed =>
        /\ pc = "raised"
        /\ \A f \in files :
              f[1][1] \in {"segment", "segment_adjusted"} => f[1][2] <= loop_i
        /\ ~Written(AdjustedPath(loop_i))
        /\ \A k \in 1 .. Len(results) : results[k].index < loop_i
        /\ ~Written(HindiAudio) /\ ~Written(FinalOutput)
        /\ segment_results = Idle /\ output_audio = Idle

\* C21: when the run is started with --no_lipsync, lipsync_video is never
\* invoked and the final output is made only by merge_audio_video.
C21_NoLipsyncHonoured ==
    (op = "main" /\ args.no_lipsync /\ Written(FinalOutput)) =>
        Content(FinalOutput) = "merge_audio_video"

\* C22: in every run of main the translation model is unloaded before the
\* TTS model is first loaded: the two are never loaded together, and from
\* the speech-generation step on the translation model is not loaded, also
\* when there is no segment to translate.
C22_ModelsNeverTogether ==
    op = "main" =>
        /\ ~(model_loaded /\ tts_loaded)
        /\ pc \in {"generate_segment_audio", "tts_loop"} => ~model_loaded

\* The TTS model was loaded after a translation, and the run ended.
C22_Witness ==
    /\ op = "main" /\ pc = "done"
    /\ tts_loaded /\ ~model_loaded
    /\ Len(translated) > 0

\* The speech-generation step was reached with no segment to translate.
C22_NoSegmentsWitness ==
    /\ op = "main" /\ pc = "tts_loop"
    /\ segments = <<>> /\ ~model_loaded

\* The fit of the first of two segments failed; the second one has a
\* translation to synthesise.
C17_Witness ==
    /\ SegmentFailed /\ pc = "raised"
    /\ error.call = "adjust_audio_duration"
    /\ loop_i = 0 /\ Len(translated) = 2
    /\ Strip(translated[2].hindi) # <<>>

\* C18: when the synthesis or the fit of a segment fails, the error that
\* reaches the caller of the run tells the failing segment's index and its
\* start and end, and the files written for earlier segments and stages
\* are still there.
C18_ErrorIdentifiesSegment ==
    SegmentFailed =>
        /\ \E a \in error.args : a[1] \in {"output_path", "audio_path"}
        /\ \E a \in error.args :
              a[1] = "start" /\ a[2] = translated[loop_i + 1].start
        /\ \E a \in error.args :
              a[1] = "end" /\ a[2] = translated[loop_i + 1].end
        /\ Written(HindiTranscript)
        /\ \A k \in 1 .. Len(results) :
              Written(results[k].raw_audio) /\ Written(results[k].adjusted_audio)

\* The part of C18 the code keeps: no step of the run removes or rewrites a
\* file, so what was written before a failure is still there after it.
C18_ArtifactsRemain == [][\A f \in files : f \in files']_vars

\* C19: merge completes before translation starts, the translation of all
\* segments completes before any synthesis, nothing is written to the canvas
\* before the fit of every segment has completed, and the compositor gets
\* the fitted clips in the order of the translated segments.
C19_StageOrder ==
    op = "main" =>
        /\ (model_loaded \/ Len(translated) > 0) =>
              merged = merge_segments(segments, max_gap)
        /\ (tts_loaded \/ \E f \in files : f[1][1] = "segment") =>
              /\ Len(translated) = Cardinality(NonBlankText(merged))
              /\ Written(HindiTranscript)
              /\ Content(HindiTranscript) = translated
        /\ StitchInvoked =>
              /\ \A k \in NonBlankHindi(translated) : Written(AdjustedPath(k - 1))
              /\ Len(segment_results) = Cardinality(NonBlankHindi(translated))
              /\ \A k \in 1 .. Len(segment_results) :
                    LET t == KthSmallest(NonBlankHindi(translated), k)
                    IN /\ segment_results[k].index = t - 1
                       /\ segment_results[k].start = translated[t].start
                       /\ segment_results[k].end = translated[t].end

\* A run to the end with two clips given to the compositor.
C19_Witness ==
    /\ op = "main" /\ pc = "done"
    /\ Len(segment_results) = 2
    /\ Written(HindiAudio) /\ Written(FinalOutput)

\* C20: every translated segment has the start and end of the merged
\* segment it comes from, the translated segments are in the order of the
\* merged ones, and the target duration used for a segment's clip is that
\* end - start.
C20_TimestampsKept ==
    op = "main" =>
        /\ Len(translated) <= Cardinality(NonBlankText(merged))
        /\ Written(HindiTranscript) =>
              Len(translated) = Cardinality(NonBlankText(merged))
        /\ \A k \in 1 .. Len(translated) :
              LET src == merged[KthSmallest(NonBlankText(merged), k)]
              IN translated[k].start = src.start /\ translated[k].end = src.end
        /\ \A k \in 1 .. Len(results) :
              LET src == merged[KthSmallest(NonBlankText(merged),
                                            results[k].index + 1)]
              IN /\ results[k].target_duration = src.end - src.start
                 /\ Content(results[k].adjusted_audio) =
                        adjust_audio_duration(Content(results[k].raw_audio),
                                              MaxRate, src.end - src.start)

\* The first of two merged segments is blank and dropped; the second, which
\* starts after 0, is translated and gets a clip.
C20_Witness ==
    /\ op = "main" /\ pc = "done"
    /\ Len(merged) = 2 /\ Len(translated) = 1 /\ Len(results) = 1
    /\ translated[1].start > 0
    /\ translated[1].end > translated[1].start

(***************** properties of adjust_audio_duration ********************)
\* The call has returned and has written its output.
FitDone == op = "adjust_audio_duration" /\ pc = "done"

\* The unclamped speed factor current_duration / target_duration lies within
\* 5% of 1.0, for a target > 0: |n / rate - t| < 0.05 * t, with t = target /
\* TicksPerSec.
WithinFivePercent(n, rate, target) ==
    /\ 19 * rate * target < 20 * n * TicksPerSec
    /\ 20 * n * TicksPerSec < 21 * rate * target

\* C1 as stated: for every (non-empty) input clip and every target_duration
\* > 0, the number of samples written equals
\* round(target_duration * sample_rate).
C1_FitLengthRound ==
    (FitDone /\ target_duration > 0 /\ Len(y) > 0) =>
        Len(written) = Round(target_duration * sr, TicksPerSec)

\* C1 amended: for every non-empty clip and every target_duration > 0, the
\* number of samples written equals int(target_duration * sample_rate)
\* (truncated, not rounded) when the speed factor is not within 5% of 1.0,
\* and equals the number of input samples when it is.
C1_FitLengthTrunc ==
    (FitDone /\ target_duration > 0 /\ Len(y) > 0) =>
        IF WithinFivePercent(Len(y), sr, target_duration)
        THEN Len(written) = Len(y)
        ELSE Len(written) = (target_duration * sr) \div TicksPerSec

\* A clip more than twice too long has been fitted to a target that is not a
\* whole number of samples: the result was cut to the truncated count.
C1_Witness ==
    /\ FitDone /\ target_duration > 0
    /\ Len(y) * TicksPerSec > 2 * sr * target_duration
    /\ 2 * ((target_duration * sr) % TicksPerSec) > TicksPerSec
    /\ Len(written) = (target_duration * sr) \div TicksPerSec
    /\ Len(written) > 0

\* C12: when the speed factor current_duration / target_duration, clamped to
\* [0.5, 2.0], differs from 1.0 by less than 0.05, no stretch is applied and
\* the samples written are the input samples; in particular when
\* target_duration equals the clip's duration the output lasts exactly
\* target_duration.
C12_BandPassThrough ==
    (FitDone /\ target_duration > 0 /\ Len(y) > 0) =>
        /\ WithinFivePercent(Len(y), sr, target_duration) => written = y
        /\ Len(y) * TicksPerSec = sr * target_duration =>
              Len(written) * TicksPerSec = target_duration * sr

\* A clip within 5% of its target, but with more samples than the target
\* sample count, has been written unchanged.
C12_Witness ==
    /\ FitDone /\ target_duration > 0 /\ Len(y) > 0
    /\ WithinFivePercent(Len(y), sr, target_duration)
    /\ Len(y) > (target_duration * sr) \div TicksPerSec
    /\ written = y

\* The rate the claim gives for the stretch: current_duration /
\* target_duration, not above 2.0 and not below 0.5.
ClaimedRate(n, rate, target) ==
    IF n * TicksPerSec > 2 * rate * target THEN Rat(2, 1)
    ELSE IF 2 * n * TicksPerSec < rate * target THEN Rat(1, 2)
    ELSE Rat(n * TicksPerSec, rate * target)

\* C13: outside the no-stretch band (target_duration > 0, a non-empty clip)
\* the clip is stretched at current_duration / target_duration clamped into
\* [0.5, 2.0], and the result is forced to the target sample count,
\* int(target_duration * sr): its tail is cut if it is longer, zeros are
\* appended if it is shorter.  A 3.0 s clip fitted to 1.0 s is stretched at
\* rate 2.0 and comes out exactly 1.0 s long.
C13_StretchClampForce ==
    (FitDone /\ target_duration > 0 /\ Len(y) > 0
        /\ ~WithinFivePercent(Len(y), sr, target_duration)) =>
        LET rate == ClaimedRate(Len(y), sr, target_duration)
            stretched == time_stretch(y, rate)
            count == (target_duration * sr) \div TicksPerSec
        IN /\ Len(written) = count
           /\ \A i \in 1 .. count :
                 written[i] = (IF i <= Len(stretched) THEN stretched[i] ELSE 0)
           /\ (Len(y) = 3 * sr /\ target_duration = TicksPerSec) =>
                 (rate = Rat(2, 1) /\ Len(written) = sr)

\* The 3.0 s clip has been fitted to 1.0 s: the stretch at rate 2.0 gave
\* more than 1.0 s, and the tail was cut.
C13_Witness ==
    /\ FitDone /\ Len(y) = 3 * sr /\ target_duration = TicksPerSec
    /\ Len(time_stretch(y, Rat(2, 1))) > sr
    /\ Len(written) = sr

\* A clip less than half as long as its target has been stretched at rate
\* 0.5 and zeros were appended.
C13_PadWitness ==
    /\ FitDone /\ target_duration > 0 /\ Len(y) > 0
    /\ 2 * Len(y) * TicksPerSec < sr * target_duration
    /\ Len(written) > 2 * Len(y)
    /\ written[Len(written)] = 0

\* C2: whenever target_duration <= 0 or the clip's measured duration is 0,
\* the samples written are exactly the input samples, and the call returns.
C2_DegeneratePassThrough ==
    (op = "adjust_audio_duration" /\ pc \in {"done", "raised"}
        /\ (target_duration <= 0 \/ Len(y) = 0)) =>
        pc = "done" /\ written = y

(****************** properties of get_segments_in_range *******************)
\* get_segments_in_range has returned.
ProjectDone == op = "get_segments_in_range" /\ pc = "done"

\* The indices of the input segments that overlap the window in more than
\* one instant.
Retained(segs, ws, we) ==
    {i \in 1 .. Len(segs) : segs[i].end > ws /\ segs[i].start < we}

\* The input segment the k-th output entry comes from.
Source(segs, ws, we, k) == segs[KthSmallest(Retained(segs, ws, we), k)]

\* t2 is t without its surrounding whitespace.
IsStripOf(t2, t) ==
    \E i \in 1 .. Len(t) + 1 : \E j \in 0 .. Len(t) :
        /\ t2 = SubSeq(t, i, j)
        /\ \A k \in 1 .. Len(t) : (k < i \/ k > j) => t[k] \in Whitespace
        /\ t2 # <<>> => (t2[1] \notin Whitespace /\ t2[Len(t2)] \notin Whitespace)

\* C8: the output of get_segments_in_range holds, in input order, exactly one
\* entry for each input segment with end > window_start and start <
\* window_end, and each entry has start' = max(0, start - window_start),
\* end' = min(window_end - window_start, end - window_start) and the text
\* without its surrounding whitespace.
C8_ProjectFilterRebase ==
    (ProjectDone) =>
        LET K == Retained(result, start_time, end_time)
            W == end_time - start_time
        IN /\ Len(filtered) = Cardinality(K)
           /\ \A k \in 1 .. Len(filtered) :
                 LET src == Source(result, start_time, end_time, k)
                     s == src.start - start_time
                     e == src.end - start_time
                 IN /\ filtered[k].start = (IF s > 0 THEN s ELSE 0)
                    /\ filtered[k].end = (IF e < W THEN e ELSE W)
                    /\ IsStripOf(filtered[k].text, src.text)

\* Of two segments the one that only touches the window start is dropped and
\* the other, which begins before the window, is kept, clipped and stripped.
C8_Witness ==
    /\ ProjectDone
    /\ Len(result) = 2 /\ Len(filtered) = 1
    /\ result[2].start < result[2].end /\ result[2].end = start_time
    /\ result[1].start < start_time /\ filtered[1].start = 0
    /\ Len(filtered[1].text) < Len(result[1].text)

\* C9: for every window with window_end > window_start and every input, each
\* emitted segment satisfies 0 <= start' < end' <= window_end - window_start,
\* the only exception being a zero-length output that comes from a source
\* segment of zero duration.
C9_EmittedWellFormed ==
    (ProjectDone /\ end_time > start_time) =>
        \A k \in 1 .. Len(filtered) :
            LET out == filtered[k]
                src == Source(result, start_time, end_time, k)
            IN \/ (0 <= out.start /\ out.start < out.end
                    /\ out.end <= end_time - start_time)
               \/ (out.start = out.end /\ src.start = src.end)

\* C10 as stated: for every segment with start < end, projecting it with
\* window_start = 0 and window_end = end - start yields exactly one output
\* segment, with start' = 0 and end' = end - start.
C10_ProjectSelfLength ==
    (/\ ProjectDone
     /\ Len(result) = 1 /\ result[1].start < result[1].end
     /\ start_time = 0 /\ end_time = result[1].end - result[1].start) =>
        /\ Len(filtered) = 1
        /\ filtered[1].start = 0
        /\ filtered[1].end = result[1].end - result[1].start

\* C10 amended: for every segment with start < end, projecting it with
\* window_start = start and window_end = end yields exactly one output
\* segment, with start' = 0 and end' = end - start.
C10_ProjectOwnWindow ==
    (/\ ProjectDone
     /\ Len(result) = 1 /\ result[1].start < result[1].end
     /\ start_time = result[1].start /\ end_time = result[1].end) =>
        /\ Len(filtered) = 1
        /\ filtered[1].start = 0
        /\ filtered[1].end = result[1].end - result[1].start

\* A segment that does not start at 0 has been projected onto its own window.
C10_Witness ==
    /\ ProjectDone
    /\ Len(result) = 1 /\ 0 < result[1].start /\ result[1].start < result[1].end
    /\ start_time = result[1].start /\ end_time = result[1].end
    /\ Len(filtered) = 1

\* The indices of the words that overlap the window in more than one
\* instant.
RetainedWords(words, ws, we) ==
    {i \in 1 .. Len(words) : words[i].end > ws /\ words[i].start < we}

\* C11: when a retained segment carries words, the emitted words are exactly
\* the words with w_end > window_start and w_start < window_end, in order,
\* each re-based with the rule of the segments (max(0, .) for the start,
\* min(window length, .) for the end); the other words are dropped; and, the
\* window being one with window_end > window_start, both ends of every
\* emitted word lie within [0, window_end - window_start].
C11_WordsFilterRebase ==
    (ProjectDone /\ Len(result) = 1 /\ "words" \in DOMAIN result[1]
        /\ Len(filtered) = 1) =>
        LET words == result[1].words
            K == RetainedWords(words, start_time, end_time)
            W == end_time - start_time
            out == filtered[1].words
        IN /\ Len(out) = Cardinality(K)
           /\ \A k \in 1 .. Len(out) :
                 LET src == words[KthSmallest(K, k)]
                     s == src.start - start_time
                     e == src.end - start_time
                 IN /\ out[k].word = src.word
                    /\ out[k].start = (IF s > 0 THEN s ELSE 0)
                    /\ out[k].end = (IF e < W THEN e ELSE W)
                    /\ W > 0 => /\ 0 <= out[k].start /\ out[k].start <= W
                                /\ 0 <= out[k].end /\ out[k].end <= W

\* Of the two words of a retained segment the first ends where the window
\* starts and is dropped, the second is kept and cut at the window end.
C11_Witness ==
    /\ ProjectDone /\ Len(result) = 1 /\ "words" \in DOMAIN result[1]
    /\ Len(filtered) = 1 /\ end_time > start_time
    /\ Len(result[1].words) = 2 /\ Len(filtered[1].words) = 1
    /\ result[1].words[1].end = start_time
    /\ result[1].words[1].start < start_time
    /\ result[1].words[2].end > end_time
    /\ filtered[1].words[1].end = end_time - start_time

(********************** malformed segment timing **************************)
\* A segment whose timing is not malformed: end > start.
WellFormed(seg) == seg.end > seg.start

\* C7: a segment with end <= start is excluded from the output of
\* merge_segments and of get_segments_in_range (it contributes neither text
\* nor time stamps), and the remaining segments are processed as usual.
C7_MalformedExcluded ==
    (pc = "done") =>
        /\ op = "merge_segments" =>
              merged = merge_segments(SelectSeq(segments, WellFormed), max_gap)
        /\ op = "get_segments_in_range" =>
              filtered = get_segments_in_range(SelectSeq(result, WellFormed),
                                               start_time, end_time)

=============================================================================
